---- MODULE Spec2Model ----
(***************************************************************************)
(* SegmentReader (src/src/core/segment_reader.rs): opening a segment, the  *)
(* document-count accessors, and the lazily filled, lock-guarded cache of  *)
(* field readers shared by all clones of a reader.                         *)
(***************************************************************************)
EXTENDS Integers, FiniteSets, Sequences, TLC

\* ---------------------------------------------------------------- bounds
NumFields == 2
NumThreads == 2
MaxCalls == 3
MaxDoc == 2

Fields == 1..NumFields
Threads == 1..NumThreads
\* Who may hold a SegmentReader: 0 is the caller of open, the others are the
\* threads, each using the reader it was handed (a clone).
Holders == 0..NumThreads
DocIds == 0..(MaxDoc - 1)

\* ------------------------------------------------------- Result / Option
Ok(v) == [ok |-> TRUE, val |-> v]
Err(e) == [ok |-> FALSE, err |-> e]
\* The call does not return: the thread unwinds with this message.
Panic(msg) == [ok |-> FALSE, panic |-> msg]
Panicked(r) == "panic" \in DOMAIN r

\* ------------------------------------------------------ SegmentComponent
Components == {"TERMS", "POSTINGS", "POSITIONS", "STORE", "FASTFIELDS", "FIELDNORMS", "DELETE"}
CompositeComponents == {"TERMS", "POSTINGS", "POSITIONS", "FASTFIELDS", "FIELDNORMS"}
MandatoryComponents == {"TERMS", "STORE", "POSTINGS", "FASTFIELDS", "FIELDNORMS"}

\* What the directory holds for a component:
\*   "ok"        the file exists, can be read, and parses
\*   "absent"    the file does not exist (open_read fails: FileDoesNotExist)
\*   "ioerror"   the file exists but its byte source cannot be obtained
\*   "malformed" the byte source is obtained but its directory does not parse
FileStatus(c) ==
    CASE c \in {"TERMS", "POSTINGS", "FASTFIELDS", "FIELDNORMS"} -> {"ok", "absent", "malformed"}
      [] c = "STORE" -> {"ok", "absent"}
      [] c = "POSITIONS" -> {"ok", "absent", "ioerror", "malformed"}
      [] c = "DELETE" -> {"ok", "absent", "ioerror"}

\* ------------------------------------------------------------ SegmentMeta
\* deletes is an Option: {} (None) or {n} (Some(DeleteMeta{num_deleted_docs: n})).
SegmentMeta_max_doc(meta) == meta.max_doc
SegmentMeta_has_deletes(meta) == meta.deletes # {}
SegmentMeta_num_deleted_docs(meta) ==
    IF meta.deletes = {} THEN 0 ELSE CHOOSE n \in meta.deletes : TRUE
SegmentMeta_num_docs(meta) == meta.max_doc - SegmentMeta_num_deleted_docs(meta)

\* ---------------------------------------------------------------- Segment
Segment_open_read(seg, c) ==
    CASE seg.files[c] = "absent" -> Err([component |-> c, kind |-> "FileDoesNotExist"])
      [] seg.files[c] = "ioerror" -> Err([component |-> c, kind |-> "IOError"])
      [] OTHER -> Ok([component |-> c])

\* ---------------------------------------------------------- CompositeFile
CompositeFile_open(seg, source) ==
    IF seg.files[source.component] = "malformed"
    THEN Err([component |-> source.component, kind |-> "Corrupted"])
    ELSE Ok([component |-> source.component,
             dir |-> seg.dirs[source.component],
             bad |-> IF source.component = "TERMS" THEN seg.bad_fields ELSE {}])

CompositeFile_empty == [component |-> "EMPTY", dir |-> {}, bad |-> {}]

\* Option<Source>: {} or {sub-range}
CompositeFile_open_read(composite, field) ==
    IF field \in composite.dir
    THEN {[component |-> composite.component, field |-> field,
           malformed |-> field \in composite.bad]}
    ELSE {}

\* ------------------------------------------- StoreReader / FastFieldsReader
StoreReader_from_source(source) == [component |-> source.component]
\* the stored fields of a document, fetched by id
StoreReader_get(store, doc_id) == Ok([store |-> store.component, doc_id |-> doc_id])

FastFieldsReader_from_source(seg, source) == CompositeFile_open(seg, source)

\* The declared types of a schema's fields and the fast-field reader types.
FieldTypes == {"u64_fast", "u64", "i64_fast", "str"}
FastFieldReaderTypes == {"U64FastFieldReader", "I64FastFieldReader"}

Schema_get_field_entry(schema, field) == [field |-> field, field_type |-> schema[field]]

\* T::is_enabled(field_type): the reader type is legal for a field declared
\* with the matching integer type and the fast flag.
FastFieldReader_is_enabled(T, field_type) ==
    \/ T = "U64FastFieldReader" /\ field_type = "u64_fast"
    \/ T = "I64FastFieldReader" /\ field_type = "i64_fast"

\* open_reader<T>(field): Option<T>, None if the field has no sub-range
FastFieldsReader_open_reader(reader, T, field) ==
    LET source == CompositeFile_open_read(reader, field)
    IN  IF source = {} THEN {}
        ELSE {[reader_type |-> T, source |-> CHOOSE x \in source : TRUE]}

\* ------------------------------------------------------------ DeleteBitSet
DeleteBitSet_open(seg, source) == [bits |-> seg.delete_bits]
DeleteBitSet_empty == [bits |-> {}]
DeleteBitSet_len(bitset) == Cardinality(bitset.bits)
DeleteBitSet_is_deleted(bitset, doc) == doc \in bitset.bits

\* ------------------------------------------------------------- FieldReader
FieldReader_new(termdict_source, postings_source, positions_source, delete_bitset, schema) ==
    IF termdict_source.malformed \/ postings_source.malformed \/ positions_source.malformed
    THEN Err("FieldReader::new failed")
    ELSE Ok([termdict |-> termdict_source,
             postings |-> postings_source,
             positions |-> positions_source,
             delete_bitset |-> delete_bitset,
             schema |-> schema])

\* ------------------------------------------------------------------ state
VARIABLES
    segment,      \* the segment handed to open: files, directories, metadata
    open_result,  \* <<>> before open; <<r>> with r the Result of open
    readers,      \* per holder: <<>> or <<r>>, the SegmentReader (clone) it holds
    cache,        \* the heap of Arc<RwLock<HashMap>>: cache[i] is a set of [field, handle]
    lock,         \* lock[i]: the RwLock of cache[i]: who holds it shared / exclusive
    pc,           \* per thread: its position in field_reader
    frame,        \* per thread: the locals of its field_reader call
    result,       \* per thread: <<>> or <<r>>, the Result the call returned
    ncalls,       \* calls of field_reader started
    returned,     \* history: every [field, value] a call returned Ok
    built,        \* history: per field, the FieldReader::new calls that succeeded
    overlapped,   \* history: some call started while another one was running
    observed      \* <<>> or <<o>>, the last accessor call: its name, argument, outcome

vars == <<segment, open_result, readers, cache, lock, pc, frame, result,
          ncalls, returned, built, overlapped, observed>>

\* ------------------------------------------------------------------- open
open_termdict(seg) ==
    LET termdict_source == Segment_open_read(seg, "TERMS")
    IN  IF ~termdict_source.ok THEN termdict_source
        ELSE CompositeFile_open(seg, termdict_source.val)

open_store(seg) ==
    LET store_source == Segment_open_read(seg, "STORE")
    IN  IF ~store_source.ok THEN store_source
        ELSE Ok(StoreReader_from_source(store_source.val))

open_postings(seg) ==
    LET postings_source == Segment_open_read(seg, "POSTINGS")
    IN  IF ~postings_source.ok THEN postings_source
        ELSE CompositeFile_open(seg, postings_source.val)

open_positions_strict(seg) ==
    LET source == Segment_open_read(seg, "POSITIONS")
    IN  IF ~source.ok THEN source
        ELSE CompositeFile_open(seg, source.val)

open_positions(seg) ==
    LET source == Segment_open_read(seg, "POSITIONS")
    IN  IF source.ok
        THEN CompositeFile_open(seg, source.val)
        ELSE Ok(CompositeFile_empty)

open_fast_fields(seg) ==
    LET fast_field_data == Segment_open_read(seg, "FASTFIELDS")
    IN  IF ~fast_field_data.ok THEN fast_field_data
        ELSE FastFieldsReader_from_source(seg, fast_field_data.val)

open_fieldnorms_lenient(seg) ==
    LET fieldnorms_data == Segment_open_read(seg, "FIELDNORMS")
    IN  IF ~fieldnorms_data.ok THEN Ok(CompositeFile_empty)
        ELSE FastFieldsReader_from_source(seg, fieldnorms_data.val)

open_fieldnorms(seg) ==
    LET fieldnorms_data == Segment_open_read(seg, "FIELDNORMS")
    IN  IF ~fieldnorms_data.ok THEN fieldnorms_data
        ELSE FastFieldsReader_from_source(seg, fieldnorms_data.val)

open_delete_bitset_unconditional(seg) ==
    LET delete_data == Segment_open_read(seg, "DELETE")
    IN  IF ~delete_data.ok THEN Ok(DeleteBitSet_empty)
        ELSE Ok(DeleteBitSet_open(seg, delete_data.val))

open_delete_bitset(seg) ==
    IF SegmentMeta_has_deletes(seg.meta)
    THEN LET delete_data == Segment_open_read(seg, "DELETE")
         IN  IF ~delete_data.ok THEN delete_data
             ELSE Ok(DeleteBitSet_open(seg, delete_data.val))
    ELSE Ok(DeleteBitSet_empty)

\* open(segment), the new cache being allocated at heap index new_cache.
open(seg, new_cache) ==
    LET termdict_composite == open_termdict(seg) IN
    IF ~termdict_composite.ok THEN termdict_composite ELSE
    LET store_reader == open_store(seg) IN
    IF ~store_reader.ok THEN store_reader ELSE
    LET postings_composite == open_postings(seg) IN
    IF ~postings_composite.ok THEN postings_composite ELSE
    LET positions_composite == open_positions(seg) IN
    IF ~positions_composite.ok THEN positions_composite ELSE
    LET fast_fields_reader == open_fast_fields(seg) IN
    IF ~fast_fields_reader.ok THEN fast_fields_reader ELSE
    LET fieldnorms_reader == open_fieldnorms(seg) IN
    IF ~fieldnorms_reader.ok THEN fieldnorms_reader ELSE
    LET delete_bitset == open_delete_bitset(seg) IN
    IF ~delete_bitset.ok THEN delete_bitset ELSE
    Ok([field_reader_cache |-> new_cache,
        segment_meta |-> seg.meta,
        postings_composite |-> postings_composite.val,
        termdict_composite |-> termdict_composite.val,
        segment_id |-> seg.id,
        store_reader |-> store_reader.val,
        fast_fields_reader |-> fast_fields_reader.val,
        fieldnorms_reader |-> fieldnorms_reader.val,
        delete_bitset |-> delete_bitset.val,
        positions_composite |-> positions_composite.val,
        schema |-> seg.schema])

\* -------------------------------------------------------------- accessors
max_doc(self) == SegmentMeta_max_doc(self.segment_meta)
num_docs(self) == SegmentMeta_num_docs(self.segment_meta)
num_deleted_docs(self) == DeleteBitSet_len(self.delete_bitset)
is_deleted(self, doc) == DeleteBitSet_is_deleted(self.delete_bitset, doc)
fast_fields_reader(self) == self.fast_fields_reader
get_fieldnorms_reader(self, field) ==
    FastFieldsReader_open_reader(self.fieldnorms_reader, "U64FastFieldReader", field)
get_store_reader(self) == self.store_reader
doc(self, doc_id) == StoreReader_get(self.store_reader, doc_id)
segment_id(self) == self.segment_id
delete_bitset(self) == self.delete_bitset

FastFieldNotAvailableError(field_entry) ==
    [kind |-> "FastFieldNotAvailableError", field_entry |-> field_entry]

\* get_fast_field_reader that consults the fast-field store before the schema.
get_fast_field_reader_store_first(self, T, field) ==
    LET field_entry == Schema_get_field_entry(self.schema, field)
        opened == FastFieldsReader_open_reader(self.fast_fields_reader, T, field)
    IN  IF opened = {} THEN Panic("Fast field file corrupted.")
        ELSE IF ~FastFieldReader_is_enabled(T, field_entry.field_type)
        THEN Err(FastFieldNotAvailableError(field_entry))
        ELSE Ok(CHOOSE r \in opened : TRUE)

\* get_fast_field_reader::<T>(field): the schema check first; then
\* open_reader(field).expect("Fast field file corrupted."), which panics on
\* None.
get_fast_field_reader(self, T, field) ==
    LET field_entry == Schema_get_field_entry(self.schema, field)
    IN  IF ~FastFieldReader_is_enabled(T, field_entry.field_type)
        THEN Err(FastFieldNotAvailableError(field_entry))
        ELSE LET opened == FastFieldsReader_open_reader(self.fast_fields_reader, T, field)
             IN  IF opened = {} THEN Panic("Fast field file corrupted.")
                 ELSE Ok(CHOOSE r \in opened : TRUE)

\* ------------------------------------------------------------------ clone
\* #[derive(Clone)]: every field is cloned; cloning the Arc of the cache
\* yields the same heap index.
clone(self) == self

\* ---------------------------------------------- HashMap<Field, Arc<FieldReader>>
HashMap_new == {}

HashMap_keys(map) == {e.field : e \in map}

HashMap_get_any(map, field) ==
    IF map = {} THEN {} ELSE {(CHOOSE e \in map : TRUE).handle}

\* .get(&field): Option<&Arc<FieldReader>>, {} or {handle}
HashMap_get(map, field) ==
    LET hits == {e \in map : e.field = field}
    IN  IF hits = {} THEN {} ELSE {(CHOOSE e \in hits : TRUE).handle}

HashMap_insert_multi(map, field, handle) ==
    map \cup {[field |-> field, handle |-> handle]}

HashMap_insert_evict(map, field, handle) ==
    {[field |-> field, handle |-> handle]}

HashMap_insert_first_key(map, field, handle) ==
    {e \in map : e.field # 1} \cup {[field |-> 1, handle |-> handle]}

\* .insert(field, handle): the entry of the key is replaced, the others stay
HashMap_insert(map, field, handle) ==
    {e \in map : e.field # field} \cup {[field |-> field, handle |-> handle]}

\* ------------------------------------------------------------------ RwLock
RwLock_new == [readers |-> {}, writer |-> {}]
RwLock_can_read(l) == l.writer = {}
RwLock_can_write(l) == l.writer = {} /\ l.readers = {}

\* ------------------------------------------------------------------- Init
AllStatuses == {"ok", "absent", "ioerror", "malformed"}

FileChoices == {fs \in [Components -> AllStatuses] : \A c \in Components : fs[c] \in FileStatus(c)}

DeleteMetas == {{}} \cup {{n} : n \in 0..MaxDoc}

Schema0 == [f \in Fields |-> IF f = 1 THEN "u64" ELSE "str"]

\* Segments whose files are missing, unreadable or malformed in every
\* combination, with every field indexed in every composite file that parses.
FaultSegments ==
    {s \in {[id |-> "segment",
             files |-> fs,
             dirs |-> [c \in CompositeComponents |-> IF fs[c] = "ok" THEN Fields ELSE {}],
             bad_fields |-> {},
             meta |-> [max_doc |-> MaxDoc, deletes |-> d],
             delete_bits |-> b,
             schema |-> Schema0] : fs \in FileChoices, d \in DeleteMetas, b \in SUBSET DocIds} :
        s.files["DELETE"] # "ok" => s.delete_bits = {}}

\* The schemas in which the first field has any declared type and the others
\* are text.
Schemas ==
    {sch \in [Fields -> FieldTypes] : \A f \in Fields \ {1} : sch[f] = "str"}

\* Segments whose files all open, with any schema of Schemas, the first
\* field in the fast-field file or not, and the last field either in both
\* the term dictionary and the field norms or in neither.
AccessSegments ==
    {[id |-> "segment",
      files |-> [c \in Components |-> "ok"],
      dirs |-> [c \in CompositeComponents |->
                   CASE c = "FASTFIELDS" -> ff [] c \in {"FIELDNORMS", "TERMS"} -> td
                     [] OTHER -> Fields],
      bad_fields |-> {},
      meta |-> [max_doc |-> MaxDoc, deletes |-> {1}],
      delete_bits |-> {0},
      schema |-> sch] :
         ff \in {Fields \ {1}, Fields}, td \in {Fields \ {NumFields}, Fields},
         sch \in Schemas}

\* The directories in which the last field's indexing varies.
VaryingDirs == {d \in SUBSET Fields : (Fields \ {NumFields}) \subseteq d}

\* Segments whose files all open, with one deleted document, and whose last
\* field is indexed in any subset of the three composite files, with a sound
\* or a malformed sub-range.
DirSegments ==
    {s \in {[id |-> "segment",
             files |-> [c \in Components |-> "ok"],
             dirs |-> [c \in CompositeComponents |->
                          CASE c = "TERMS" -> td [] c = "POSTINGS" -> po [] c = "POSITIONS" -> ps
                            [] OTHER -> Fields],
             bad_fields |-> bad,
             meta |-> [max_doc |-> MaxDoc, deletes |-> {1}],
             delete_bits |-> {0},
             schema |-> Schema0] :
                td \in VaryingDirs, po \in VaryingDirs, ps \in VaryingDirs,
                bad \in SUBSET {NumFields}} :
        s.bad_fields \subseteq s.dirs["TERMS"]}

NoFrame == [field |-> 0, handle |-> <<>>,
            hit |-> FALSE, looked |-> FALSE, constructed |-> FALSE, inserted |-> FALSE]

InitReader ==
    /\ open_result = <<>>
    /\ readers = [h \in Holders |-> <<>>]
    /\ cache = <<>>
    /\ lock = <<>>
    /\ pc = [t \in Threads |-> "idle"]
    /\ frame = [t \in Threads |-> NoFrame]
    /\ result = [t \in Threads |-> <<>>]
    /\ ncalls = 0
    /\ returned = {}
    /\ built = [f \in Fields |-> 0]
    /\ overlapped = FALSE
    /\ observed = <<>>

\* before open, for the segments whose directories vary
Init == segment \in DirSegments /\ InitReader

\* before open, for the segments whose files fail
InitOpen == segment \in FaultSegments /\ InitReader

\* before open, for the segments whose schema and fast fields vary
InitAccess == segment \in AccessSegments /\ InitReader

thread_vars == <<pc, frame, result, ncalls, returned, built, overlapped>>

\* ---------------------------------------------------------------- actions
Opened == open_result # <<>> /\ open_result[1].ok

\* SegmentReader::open(segment)
Open ==
    /\ open_result = <<>>
    /\ LET r == open(segment, Len(cache) + 1)
       IN  /\ open_result' = <<r>>
           /\ IF r.ok
              THEN /\ readers' = [readers EXCEPT ![0] = <<r.val>>]
                   /\ cache' = Append(cache, HashMap_new)
                   /\ lock' = Append(lock, RwLock_new)
              ELSE UNCHANGED <<readers, cache, lock>>
    /\ UNCHANGED <<segment, observed, thread_vars>>

\* A clone that copies the map into a cache of its own.
Clone_deep(h, t) ==
    /\ readers[h] # <<>>
    /\ readers[t] = <<>>
    /\ readers' = [readers EXCEPT
                     ![t] = <<[readers[h][1] EXCEPT !.field_reader_cache = Len(cache) + 1]>>]
    /\ cache' = Append(cache, cache[readers[h][1].field_reader_cache])
    /\ lock' = Append(lock, RwLock_new)
    /\ UNCHANGED <<segment, observed, open_result, thread_vars>>

\* reader.clone(), handed to a thread that holds no reader yet
Clone(h, t) ==
    /\ readers[h] # <<>>
    /\ readers[t] = <<>>
    /\ readers' = [readers EXCEPT ![t] = <<clone(readers[h][1])>>]
    /\ UNCHANGED <<segment, observed, open_result, cache, lock, thread_vars>>

Running(t) == pc[t] \notin {"idle", "done"}

\* a thread calls self.field_reader(field) on the reader it holds; the Result
\* of its previous call, if any, is dropped
FieldReaderCall(t, field) ==
    /\ readers[t] # <<>>
    /\ pc[t] \in {"idle", "done"}
    /\ ncalls < MaxCalls
    /\ ncalls' = ncalls + 1
    /\ pc' = [pc EXCEPT ![t] = "read"]
    /\ frame' = [frame EXCEPT ![t] = [NoFrame EXCEPT !.field = field]]
    /\ result' = [result EXCEPT ![t] = <<>>]
    /\ overlapped' = (overlapped \/ \E u \in Threads \ {t} : Running(u))
    /\ UNCHANGED <<segment, observed, open_result, readers, cache, lock, returned, built>>

Self(t) == readers[t][1]
CacheOf(t) == Self(t).field_reader_cache

\* self.field_reader_cache.read().unwrap()
CacheReadLock(t) ==
    /\ pc[t] = "read"
    /\ RwLock_can_read(lock[CacheOf(t)])
    /\ lock' = [lock EXCEPT ![CacheOf(t)].readers = @ \cup {t}]
    /\ pc' = [pc EXCEPT ![t] = "get"]
    /\ UNCHANGED <<segment, observed, open_result, readers, cache, frame, result,
                   ncalls, returned, built, overlapped>>

\* CacheGet without the early return of the fast path.
CacheGet_no_fast_path(t) ==
    /\ pc[t] = "get"
    /\ lock' = [lock EXCEPT ![CacheOf(t)].readers = @ \ {t}]
    /\ pc' = [pc EXCEPT ![t] = "miss"]
    /\ frame' = [frame EXCEPT ![t].hit = HashMap_get(cache[CacheOf(t)], frame[t].field) # {}]
    /\ UNCHANGED <<segment, observed, open_result, readers, cache, result,
                   ncalls, returned, built, overlapped>>

\* CacheGet whose read guard lives on into the slow path of a miss.
CacheGet_guard_kept(t) ==
    /\ pc[t] = "get"
    /\ LET found == HashMap_get(cache[CacheOf(t)], frame[t].field)
       IN  IF found # {}
           THEN LET field_reader == CHOOSE h \in found : TRUE
                IN  /\ result' = [result EXCEPT ![t] = <<Ok(field_reader)>>]
                    /\ frame' = [frame EXCEPT ![t].hit = TRUE]
                    /\ returned' = returned \cup
                          {[field |-> frame[t].field, value |-> field_reader.value]}
                    /\ lock' = [lock EXCEPT ![CacheOf(t)].readers = @ \ {t}]
                    /\ pc' = [pc EXCEPT ![t] = "done"]
           ELSE /\ pc' = [pc EXCEPT ![t] = "miss"]
                /\ UNCHANGED <<frame, result, returned, lock>>
    /\ UNCHANGED <<segment, observed, open_result, readers, cache, ncalls, built, overlapped>>

\* .get(&field): on a hit return Ok(field_reader.clone()); the read guard is
\* a temporary of the `if let` and is dropped when the statement ends.
CacheGet(t) ==
    /\ pc[t] = "get"
    /\ lock' = [lock EXCEPT ![CacheOf(t)].readers = @ \ {t}]
    /\ LET found == HashMap_get(cache[CacheOf(t)], frame[t].field)
       IN  IF found # {}
           THEN LET field_reader == CHOOSE h \in found : TRUE
                IN  /\ result' = [result EXCEPT ![t] = <<Ok(field_reader)>>]
                    /\ frame' = [frame EXCEPT ![t].hit = TRUE]
                    /\ returned' = returned \cup
                          {[field |-> frame[t].field, value |-> field_reader.value]}
                    /\ pc' = [pc EXCEPT ![t] = "done"]
           ELSE /\ pc' = [pc EXCEPT ![t] = "miss"]
                /\ UNCHANGED <<frame, result, returned>>
    /\ UNCHANGED <<segment, observed, open_result, readers, cache, ncalls, built, overlapped>>

\* The slow path's three open_read calls, each followed by ok_or(..)?
field_reader_sources_no_positions(self, field) ==
    LET termdict_source == CompositeFile_open_read(self.termdict_composite, field) IN
    IF termdict_source = {} THEN Err("Field not found") ELSE
    LET postings_source == CompositeFile_open_read(self.postings_composite, field) IN
    IF postings_source = {} THEN Err("field not found") ELSE
    Ok([termdict |-> CHOOSE x \in termdict_source : TRUE,
        postings |-> CHOOSE x \in postings_source : TRUE,
        positions |-> [component |-> "EMPTY", field |-> field, malformed |-> FALSE]])

field_reader_sources(self, field) ==
    LET termdict_source == CompositeFile_open_read(self.termdict_composite, field) IN
    IF termdict_source = {} THEN Err("Field not found") ELSE
    LET postings_source == CompositeFile_open_read(self.postings_composite, field) IN
    IF postings_source = {} THEN Err("field not found") ELSE
    LET positions_source == CompositeFile_open_read(self.positions_composite, field) IN
    IF positions_source = {} THEN Err("field not found") ELSE
    Ok([termdict |-> CHOOSE x \in termdict_source : TRUE,
        postings |-> CHOOSE x \in postings_source : TRUE,
        positions |-> CHOOSE x \in positions_source : TRUE])

\* FieldReader::new(termdict_source, postings_source, positions_source,
\*                  self.delete_bitset.clone(), self.schema.clone())?
\* reached only when none of the three lookups returned early.
field_reader_new(self, sources) ==
    IF ~sources.ok THEN sources
    ELSE FieldReader_new(sources.val.termdict, sources.val.postings, sources.val.positions,
                         self.delete_bitset, self.schema)

\* SlowPath that drops the whole cache when the call fails.
SlowPath_invalidate(t) ==
    /\ pc[t] = "miss"
    /\ LET sources == field_reader_sources(Self(t), frame[t].field)
           field_reader == field_reader_new(Self(t), sources)
       IN  IF field_reader.ok
           THEN /\ frame' = [frame EXCEPT
                      ![t].handle = <<[arc |-> <<t, frame[t].field>>, value |-> field_reader.val]>>,
                      ![t].looked = TRUE, ![t].constructed = TRUE]
                /\ built' = [built EXCEPT ![frame[t].field] = @ + 1]
                /\ pc' = [pc EXCEPT ![t] = "write"]
                /\ UNCHANGED <<result, cache>>
           ELSE /\ frame' = [frame EXCEPT ![t].looked = TRUE, ![t].constructed = sources.ok]
                /\ result' = [result EXCEPT ![t] = <<field_reader>>]
                /\ cache' = [cache EXCEPT ![CacheOf(t)] = HashMap_new]
                /\ pc' = [pc EXCEPT ![t] = "done"]
                /\ UNCHANGED built
    /\ UNCHANGED <<segment, observed, open_result, readers, lock, ncalls, returned, overlapped>>

\* The slow path of a cache miss, no lock held: the three sub-range lookups,
\* then Arc::new(FieldReader::new(..)?); either `?` returns the error.
\* The new Arc is named by the thread and the field it was allocated for: a
\* thread builds a field at most once, since its later calls hit the cache.
SlowPath(t) ==
    /\ pc[t] = "miss"
    /\ LET sources == field_reader_sources(Self(t), frame[t].field)
           field_reader == field_reader_new(Self(t), sources)
       IN  IF field_reader.ok
           THEN /\ frame' = [frame EXCEPT
                      ![t].handle = <<[arc |-> <<t, frame[t].field>>, value |-> field_reader.val]>>,
                      ![t].looked = TRUE, ![t].constructed = TRUE]
                /\ built' = [built EXCEPT ![frame[t].field] = @ + 1]
                /\ pc' = [pc EXCEPT ![t] = "write"]
                /\ UNCHANGED result
           ELSE /\ frame' = [frame EXCEPT ![t].looked = TRUE, ![t].constructed = sources.ok]
                /\ result' = [result EXCEPT ![t] = <<field_reader>>]
                /\ pc' = [pc EXCEPT ![t] = "done"]
                /\ UNCHANGED built
    /\ UNCHANGED <<segment, observed, open_result, readers, cache, lock, ncalls, returned, overlapped>>

\* self.field_reader_cache.write().unwrap()
CacheWriteLock(t) ==
    /\ pc[t] = "write"
    /\ RwLock_can_write(lock[CacheOf(t)])
    /\ lock' = [lock EXCEPT ![CacheOf(t)].writer = {t}]
    /\ pc' = [pc EXCEPT ![t] = "insert"]
    /\ UNCHANGED <<segment, observed, open_result, readers, cache, frame, result,
                   ncalls, returned, built, overlapped>>

\* .insert(field, field_reader.clone()); the write guard is dropped at the end
\* of the statement; Ok(field_reader)
CacheInsert(t) ==
    /\ pc[t] = "insert"
    /\ LET field_reader == frame[t].handle[1]
       IN  /\ cache' = [cache EXCEPT ![CacheOf(t)] =
                           HashMap_insert(@, frame[t].field, field_reader)]
           /\ result' = [result EXCEPT ![t] = <<Ok(field_reader)>>]
           /\ returned' = returned \cup
                 {[field |-> frame[t].field, value |-> field_reader.value]}
    /\ lock' = [lock EXCEPT ![CacheOf(t)].writer = {}]
    /\ frame' = [frame EXCEPT ![t].inserted = TRUE]
    /\ pc' = [pc EXCEPT ![t] = "done"]
    /\ UNCHANGED <<segment, observed, open_result, readers, ncalls, built, overlapped>>

\* A holder can call a method of the reader it holds when it is not inside
\* another call.
CanCall(h) == readers[h] # <<>> /\ (IF h = 0 THEN TRUE ELSE ~Running(h))

\* An accessor that empties the caches as a side effect.
Observe_resets_cache(op, arg, out) ==
    /\ observed' = <<[op |-> op, arg |-> arg, out |-> out]>>
    /\ cache' = [i \in DOMAIN cache |-> HashMap_new]
    /\ UNCHANGED <<segment, open_result, readers, lock, thread_vars>>

\* The caller sees the outcome of a &self accessor; the reader, the caches
\* and the other threads are left as they are.
Observe(op, arg, out) ==
    /\ observed' = <<[op |-> op, arg |-> arg, out |-> out]>>
    /\ UNCHANGED <<segment, open_result, readers, cache, lock, thread_vars>>

Call_max_doc(h) ==
    CanCall(h) /\ Observe("max_doc", <<>>, max_doc(readers[h][1]))

Call_num_docs(h) ==
    CanCall(h) /\ Observe("num_docs", <<>>, num_docs(readers[h][1]))

Call_num_deleted_docs(h) ==
    CanCall(h) /\ Observe("num_deleted_docs", <<>>, num_deleted_docs(readers[h][1]))

Call_fast_fields_reader(h) ==
    CanCall(h) /\ Observe("fast_fields_reader", <<>>, fast_fields_reader(readers[h][1]))

Call_get_fast_field_reader(h, T, field) ==
    CanCall(h) /\ Observe("get_fast_field_reader", <<T, field>>,
                          get_fast_field_reader(readers[h][1], T, field))

Call_get_fieldnorms_reader(h, field) ==
    CanCall(h) /\ Observe("get_fieldnorms_reader", <<field>>,
                          get_fieldnorms_reader(readers[h][1], field))

Call_get_store_reader(h) ==
    CanCall(h) /\ Observe("get_store_reader", <<>>, get_store_reader(readers[h][1]))

Call_doc(h, doc_id) ==
    CanCall(h) /\ Observe("doc", <<doc_id>>, doc(readers[h][1], doc_id))

Call_segment_id(h) ==
    CanCall(h) /\ Observe("segment_id", <<>>, segment_id(readers[h][1]))

Call_delete_bitset(h) ==
    CanCall(h) /\ Observe("delete_bitset", <<>>, delete_bitset(readers[h][1]))

Call_is_deleted(h, doc_id) ==
    CanCall(h) /\ Observe("is_deleted", <<doc_id>>, is_deleted(readers[h][1], doc_id))

Next ==
    \/ Open
    \/ \E h \in Holders, t \in Threads : Clone(h, t)
    \/ \E t \in Threads, f \in Fields : FieldReaderCall(t, f)
    \/ \E t \in Threads : CacheReadLock(t)
    \/ \E t \in Threads : CacheGet(t)
    \/ \E t \in Threads : SlowPath(t)
    \/ \E t \in Threads : CacheWriteLock(t)
    \/ \E t \in Threads : CacheInsert(t)

Spec == Init /\ [][Next]_vars

\* Segments whose last field is missing in the term dictionary or has a
\* malformed sub-range there, the other fields being indexed everywhere:
\* calls return a reader, a "field not found" or a construction error.
FairSegments ==
    {s \in DirSegments :
        /\ s.dirs["POSTINGS"] = Fields /\ s.dirs["POSITIONS"] = Fields
        /\ (NumFields \in s.dirs["TERMS"]) = (NumFields \in s.bad_fields)}

\* after open has succeeded and every thread has been handed a clone
InitFair ==
    /\ segment \in FairSegments
    /\ open_result = <<open(segment, 1)>>
    /\ readers = [h \in Holders |-> <<clone(open(segment, 1).val)>>]
    /\ cache = <<HashMap_new>>
    /\ lock = <<RwLock_new>>
    /\ pc = [t \in Threads |-> "idle"]
    /\ frame = [t \in Threads |-> NoFrame]
    /\ result = [t \in Threads |-> <<>>]
    /\ ncalls = 0
    /\ returned = {}
    /\ built = [f \in Fields |-> 0]
    /\ overlapped = FALSE
    /\ observed = <<>>

\* The step a thread inside field_reader can take where it stands.
Proceed(t) ==
    \/ CacheReadLock(t)
    \/ CacheGet(t)
    \/ SlowPath(t)
    \/ CacheWriteLock(t)
    \/ CacheInsert(t)

\* Racing calls under a scheduler that lets every thread run that can take a
\* step: a thread waiting for the lock is let in once the lock stays free.
NextFair ==
    \/ \E t \in Threads, f \in Fields : FieldReaderCall(t, f)
    \/ \E t \in Threads : Proceed(t)

SpecFair == InitFair /\ [][NextFair]_vars /\ \A t \in Threads : WF_vars(Proceed(t))

\* open on any segment, then the reader and its clones used by one caller at a
\* time
NextOpen ==
    \/ Open
    \/ \E h \in Holders, t \in Threads : Clone(h, t)
    \/ \E f \in Fields : FieldReaderCall(1, f)
    \/ CacheReadLock(1)
    \/ CacheGet(1)
    \/ SlowPath(1)
    \/ CacheWriteLock(1)
    \/ CacheInsert(1)

SpecOpen == InitOpen /\ [][NextOpen]_vars

\* open, one clone handed to a thread, then every method of the reader
\* called by its two holders
NextAccess ==
    \/ Open
    \/ Clone(0, 1)
    \/ \E f \in Fields : FieldReaderCall(1, f)
    \/ CacheReadLock(1)
    \/ CacheGet(1)
    \/ SlowPath(1)
    \/ CacheWriteLock(1)
    \/ CacheInsert(1)
    \/ \E h \in Holders : Call_max_doc(h)
    \/ \E h \in Holders : Call_num_docs(h)
    \/ \E h \in Holders : Call_num_deleted_docs(h)
    \/ \E h \in Holders : Call_fast_fields_reader(h)
    \/ \E h \in Holders, T \in FastFieldReaderTypes, f \in Fields :
           Call_get_fast_field_reader(h, T, f)
    \/ \E h \in Holders, f \in Fields : Call_get_fieldnorms_reader(h, f)
    \/ \E h \in Holders : Call_get_store_reader(h)
    \/ \E h \in Holders, d \in DocIds : Call_doc(h, d)
    \/ \E h \in Holders : Call_segment_id(h)
    \/ \E h \in Holders : Call_delete_bitset(h)
    \/ \E h \in Holders, d \in DocIds : Call_is_deleted(h, d)

SpecAccess == InitAccess /\ [][NextAccess]_vars

\* ================================================================= claims

TheReader == open_result[1].val
TheCache == cache[TheReader.field_reader_cache]
EntriesOf(map, f) == {e \in map : e.field = f}

\* Some call has returned and the reader has been cloned.
Exercised == ncalls >= 1 /\ \E t \in Threads : pc[t] = "done"

\* The metadata's count of deleted documents is the number of bits set in
\* the Delete component (what the segment writer records).
ValidDeletes(seg) ==
    SegmentMeta_has_deletes(seg.meta) =>
        SegmentMeta_num_deleted_docs(seg.meta) = Cardinality(seg.delete_bits)

\* C1 (as stated): for every SegmentReader returned by open, and every clone
\* of it, in every reachable state,
\* num_docs() + num_deleted_docs() = max_doc().
C1_Original ==
    \A h \in Holders :
        readers[h] # <<>> =>
            num_docs(readers[h][1]) + num_deleted_docs(readers[h][1]) = max_doc(readers[h][1])

\* C1 (amended): the same equality for every reader opened from a segment
\* whose metadata count of deleted documents equals the number of bits set in
\* its Delete component.
C1_CountsAddUp ==
    ValidDeletes(segment) =>
        \A h \in Holders :
            readers[h] # <<>> =>
                num_docs(readers[h][1]) + num_deleted_docs(readers[h][1]) = max_doc(readers[h][1])

\* A reader with one deleted document, opened from a valid segment, has been
\* cloned to a thread whose call has returned.
C1_Witness ==
    /\ Opened /\ Exercised
    /\ ValidDeletes(segment)
    /\ \E t \in Threads :
          /\ pc[t] = "done"
          /\ num_deleted_docs(readers[t][1]) = 1
          /\ num_docs(readers[t][1]) = MaxDoc - 1
          /\ max_doc(readers[t][1]) = MaxDoc

\* The three sub-ranges of field f exist in the segment's composite files.
HasSubranges(f) ==
    /\ segment.files["POSITIONS"] = "ok"
    /\ f \in segment.dirs["TERMS"]
    /\ f \in segment.dirs["POSTINGS"]
    /\ f \in segment.dirs["POSITIONS"]

\* The reader of field f: f's own three sub-ranges, the segment's Delete Bit
\* Set and its schema.
ReaderValueOf(f) ==
    [termdict |-> [component |-> "TERMS", field |-> f, malformed |-> FALSE],
     postings |-> [component |-> "POSTINGS", field |-> f, malformed |-> FALSE],
     positions |-> [component |-> "POSITIONS", field |-> f, malformed |-> FALSE],
     delete_bitset |-> TheReader.delete_bitset,
     schema |-> segment.schema]

\* C2: calls of field_reader(f) racing on an uncached field f whose three
\* sub-ranges exist all return the reader of f (a construction failure of a
\* malformed sub-range is the only failure, and then every call fails the
\* same way), and once a call has returned Ok the cache holds exactly one
\* entry for f.
C2_RacingCallsAgree ==
    /\ \A t \in Threads :
          (pc[t] = "done" /\ HasSubranges(frame[t].field)) =>
              IF frame[t].field \in segment.bad_fields
              THEN ~result[t][1].ok /\ result[t][1].err = "FieldReader::new failed"
              ELSE result[t][1].ok /\ result[t][1].val.value = ReaderValueOf(frame[t].field)
    /\ \A r \in returned : Cardinality(EntriesOf(TheCache, r.field)) = 1

\* Two threads both missed the cache for the same field, both built a reader
\* and both have returned.
C2_Witness ==
    \E t, u \in Threads :
        /\ t # u
        /\ pc[t] = "done" /\ pc[u] = "done"
        /\ frame[t].field = frame[u].field
        /\ frame[t].inserted /\ frame[u].inserted
        /\ result[t][1].val.arc # result[u][1].val.arc

\* C3: the cache is empty right after open, and no step of any thread on any
\* clone removes a key from it.
C3_CacheOnlyGrows ==
    [][/\ Len(cache) <= Len(cache')
       /\ \A i \in 1..Len(cache) : HashMap_keys(cache[i]) \subseteq HashMap_keys(cache'[i])
       /\ (open_result = <<>> /\ Opened') =>
              cache'[open_result'[1].val.field_reader_cache] = {}]_vars

\* A field was cached through one clone and a later call through another
\* clone hit the cache.
C3_Witness ==
    /\ Opened
    /\ \E t, u \in Threads :
          /\ t # u
          /\ pc[t] = "done" /\ frame[t].hit
          /\ pc[u] = "done" /\ frame[u].inserted /\ frame[u].field = frame[t].field

FieldNotFound == {"Field not found", "field not found"}

Unindexed(self, f) ==
    \/ f \notin self.termdict_composite.dir
    \/ f \notin self.postings_composite.dir
    \/ f \notin self.positions_composite.dir

\* C4: a call for a field without a sub-range in one of the three composite
\* files returns a "field not found" error, which a construction failure
\* never is; a call returns a reader only if all three sub-ranges exist.
C4_FieldNotFound ==
    \A t \in Threads :
        pc[t] = "done" =>
            LET r == result[t][1]
                missing == Unindexed(readers[t][1], frame[t].field)
            IN  /\ missing => (~r.ok /\ r.err \in FieldNotFound /\ ~frame[t].constructed)
                /\ r.ok => ~missing
                /\ (~missing /\ ~r.ok) => r.err \notin FieldNotFound

\* A call for a field indexed in the term dictionary and the postings but not
\* in the positions has returned "field not found".
C4_Witness ==
    \E t \in Threads :
        /\ pc[t] = "done"
        /\ frame[t].field \in segment.dirs["TERMS"] \cap segment.dirs["POSTINGS"]
        /\ frame[t].field \notin TheReader.positions_composite.dir
        /\ ~result[t][1].ok /\ result[t][1].err = "field not found"

\* C5: a call that ends in an error has inserted nothing, leaves no entry for
\* its field, and the step that returns the error leaves every cache, lock
\* and reader as it was.
C5_FailureLeavesCache ==
    [][\A t \in Threads :
          (pc'[t] = "done" /\ ~result'[t][1].ok) =>
              /\ ~frame'[t].inserted
              /\ \A i \in 1..Len(cache') : frame'[t].field \notin HashMap_keys(cache'[i])
              /\ pc[t] # "done" => (cache' = cache /\ lock' = lock /\ readers' = readers)]_vars

\* A call has failed in FieldReader::new while the cache holds an entry of
\* another field.
C5_Witness ==
    /\ Opened
    /\ TheCache # {}
    /\ \E t \in Threads :
          pc[t] = "done" /\ ~result[t][1].ok /\ frame[t].constructed

\* C6: a call that finds its field in the cache returns the cached handle
\* and looks nothing up and constructs nothing; as long as no two calls have
\* overlapped, at most one reader has been constructed per field.
C6_HitDoesNoWork ==
    [][/\ \A t \in Threads :
             frame'[t].hit =>
                 /\ pc'[t] = "done" /\ result'[t][1].ok
                 /\ ~frame'[t].looked /\ ~frame'[t].constructed /\ ~frame'[t].inserted
       /\ \A t \in Threads :
             (pc[t] = "get" /\ pc'[t] # "get"
                 /\ frame[t].field \in HashMap_keys(cache[CacheOf(t)])) =>
                 /\ pc'[t] = "done"
                 /\ [field |-> frame[t].field, handle |-> result'[t][1].val]
                        \in cache[CacheOf(t)]
                 /\ cache' = cache /\ built' = built
       /\ ~overlapped' => \A f \in Fields : built'[f] <= 1]_vars

\* In a run without overlapping calls, a field has been built once and a
\* later call has hit the cache.
C6_Witness ==
    \E t \in Threads :
        /\ ~overlapped /\ ncalls >= 2
        /\ pc[t] = "done" /\ frame[t].hit
        /\ built[frame[t].field] = 1

\* C7: all readers returned for one field, by cache hits and by cache misses
\* in any interleaving, have the same value, which is also the value of the
\* cached reader of that field.
C7_SameFieldSameValue ==
    /\ \A a, b \in returned : a.field = b.field => a.value = b.value
    /\ \A a \in returned : \A e \in TheCache : a.field = e.field => a.value = e.handle.value

\* A field was built twice by racing calls and then returned by a cache hit.
C7_Witness ==
    \E t \in Threads :
        /\ pc[t] = "done" /\ frame[t].hit
        /\ built[frame[t].field] >= 2

MandatoryOpen(seg) == \A c \in MandatoryComponents : seg.files[c] = "ok"

\* C8: open returns an error, and no SegmentReader exists, whenever a
\* mandatory component is missing or its directory is malformed; a reader
\* exists only if every mandatory component opened.
C8_MandatoryFailureIsFatal ==
    /\ (open_result # <<>> /\ ~MandatoryOpen(segment)) => ~open_result[1].ok
    /\ (open_result = <<>> \/ ~open_result[1].ok) =>
           ((\A h \in Holders : readers[h] = <<>>) /\ cache = <<>>)
    /\ (\E h \in Holders : readers[h] # <<>>) => MandatoryOpen(segment)

\* open has failed on a segment whose only fault is its field-norms file.
C8_Witness ==
    /\ open_result # <<>> /\ ~open_result[1].ok
    /\ segment.files["FIELDNORMS"] \in {"absent", "malformed"}
    /\ \A c \in Components \ {"FIELDNORMS"} : segment.files[c] = "ok"
    /\ open_result[1].err.component = "FIELDNORMS"

\* C9 (as stated): with every mandatory component open, an absent Positions
\* or Delete component never makes open fail, whatever the metadata says,
\* and the empty variant is substituted.
C9_Original ==
    (/\ open_result # <<>>
     /\ MandatoryOpen(segment)
     /\ segment.files["POSITIONS"] \in {"ok", "absent"}
     /\ segment.files["DELETE"] \in {"ok", "absent"}) =>
        /\ open_result[1].ok
        /\ segment.files["POSITIONS"] = "absent" =>
               open_result[1].val.positions_composite = CompositeFile_empty
        /\ segment.files["DELETE"] = "absent" =>
               open_result[1].val.delete_bitset = DeleteBitSet_empty

\* C9 (amended): with every mandatory component open, an absent Positions
\* component never makes open fail and the empty Composite File is
\* substituted; the Delete component is not read and the empty Delete Bit Set
\* is used when has_deletes is false, whether the file exists or not; when
\* has_deletes is true an absent Delete component makes open fail.
C9_MissingOptional ==
    (open_result # <<>> /\ MandatoryOpen(segment)) =>
        /\ (/\ segment.files["POSITIONS"] \in {"ok", "absent"}
            /\ (segment.files["DELETE"] = "ok" \/ ~SegmentMeta_has_deletes(segment.meta))) =>
               /\ open_result[1].ok
               /\ segment.files["POSITIONS"] = "absent" =>
                      open_result[1].val.positions_composite = CompositeFile_empty
               /\ ~SegmentMeta_has_deletes(segment.meta) =>
                      open_result[1].val.delete_bitset = DeleteBitSet_empty
        /\ (SegmentMeta_has_deletes(segment.meta) /\ segment.files["DELETE"] = "absent") =>
               ~open_result[1].ok

\* open has succeeded on a segment with neither a Positions nor a Delete file.
C9_Witness ==
    /\ Opened
    /\ segment.files["POSITIONS"] = "absent"
    /\ segment.files["DELETE"] = "absent"
    /\ TheReader.positions_composite = CompositeFile_empty
    /\ TheReader.delete_bitset = DeleteBitSet_empty

\* C10: when the Positions file exists, a failure to obtain its byte source
\* or to parse its directory makes open fail, and so does a failure to obtain
\* the byte source of the Delete file that open reads.
C10_PresentOptionalFailureIsFatal ==
    (/\ open_result # <<>>
     /\ \/ segment.files["POSITIONS"] \in {"ioerror", "malformed"}
        \/ (SegmentMeta_has_deletes(segment.meta) /\ segment.files["DELETE"] = "ioerror")) =>
        ~open_result[1].ok

\* C11: every reader (the opened one and its clones) of a segment whose
\* metadata has no deletes reports num_deleted_docs() = 0 and is_deleted(d)
\* false for every d below max_doc(); open does not read the Delete
\* component of such a segment: its Delete Bit Set is the empty one whatever
\* the Delete file holds, and a Delete file that cannot be read does not
\* make open fail.
C11_NoDeletes ==
    (open_result # <<>> /\ ~SegmentMeta_has_deletes(segment.meta)) =>
        /\ \A h \in Holders :
              readers[h] # <<>> =>
                  /\ num_deleted_docs(readers[h][1]) = 0
                  /\ \A d \in 0..(max_doc(readers[h][1]) - 1) : ~is_deleted(readers[h][1], d)
                  /\ readers[h][1].delete_bitset = DeleteBitSet_empty
        /\ (MandatoryOpen(segment) /\ segment.files["POSITIONS"] # "malformed") =>
              open_result[1].ok

\* A reader of a segment without deletes in its metadata, whose Delete file
\* exists and has bits set, has been opened and cloned to a thread.
C11_Witness ==
    /\ Opened
    /\ ~SegmentMeta_has_deletes(segment.meta)
    /\ segment.files["DELETE"] = "ok" /\ segment.delete_bits # {}
    /\ readers[1] # <<>>
    /\ num_deleted_docs(readers[1][1]) = 0
    /\ max_doc(readers[1][1]) = MaxDoc

\* The last accessor call was get_fast_field_reader::<T>(f).
ObservedFast(T, f) ==
    /\ observed # <<>>
    /\ observed[1].op = "get_fast_field_reader"
    /\ observed[1].arg = <<T, f>>

\* C12: get_fast_field_reader::<T>(f) with T not enabled for the declared
\* type of f returns the fast-field-not-available error for f, neither a
\* reader nor a "field not found" error nor a panic, whether or not f has a
\* sub-range in the fast-field file.
C12_TypeMismatch ==
    \A T \in FastFieldReaderTypes, f \in Fields :
        (ObservedFast(T, f) /\ ~FastFieldReader_is_enabled(T, segment.schema[f])) =>
            /\ ~observed[1].out.ok
            /\ ~Panicked(observed[1].out)
            /\ observed[1].out.err =
                   FastFieldNotAvailableError([field |-> f, field_type |-> segment.schema[f]])

\* An unsigned reader was requested for a signed fast field that has no
\* sub-range in the fast-field file, and the call returned an error.
C12_Witness ==
    /\ ObservedFast("U64FastFieldReader", 1)
    /\ segment.schema[1] = "i64_fast"
    /\ 1 \notin TheReader.fast_fields_reader.dir
    /\ ~observed[1].out.ok /\ ~Panicked(observed[1].out)

\* C13: every clone refers to the cache that open allocated, and once some
\* call of field_reader(f) has returned a reader, through whichever clone,
\* every lookup of f made afterwards through any clone is a cache hit that
\* returns the handle the shared cache holds for f.
C13_ClonesShareCache ==
    [][/\ \A h \in Holders :
             readers'[h] # <<>> =>
                 readers'[h][1].field_reader_cache = open_result'[1].val.field_reader_cache
       /\ Len(cache') <= 1
       /\ \A t \in Threads :
             (/\ pc[t] = "get" /\ pc'[t] # "get"
              /\ \E r \in returned : r.field = frame[t].field) =>
                 /\ frame'[t].hit /\ pc'[t] = "done" /\ result'[t][1].ok
                 /\ \A h \in Holders :
                       readers'[h] # <<>> =>
                           [field |-> frame[t].field, handle |-> result'[t][1].val]
                               \in cache'[readers'[h][1].field_reader_cache]]_vars

\* A call through one clone has hit the cache and returned the handle that
\* another thread built and inserted through its own clone.
C13_Witness ==
    \E t \in Threads :
        /\ pc[t] = "done" /\ frame[t].hit
        /\ result[t][1].val.arc[1] # t
        /\ readers[t][1].field_reader_cache = TheReader.field_reader_cache
        /\ [field |-> frame[t].field, handle |-> result[t][1].val] \in TheCache

\* C14: no call ends in a panic: every field_reader call that has ended
\* holds a returned Result, and get_fast_field_reader::<T>(f) with T enabled
\* for the declared type of f returns an outcome also when f has no
\* sub-range in the fast-field file.
C14_FailuresAreReturned ==
    /\ \A t \in Threads : result[t] # <<>> => ~Panicked(result[t][1])
    /\ \A T \in FastFieldReaderTypes, f \in Fields :
          (/\ ObservedFast(T, f)
           /\ FastFieldReader_is_enabled(T, segment.schema[f])
           /\ f \notin TheReader.fast_fields_reader.dir) =>
              ~Panicked(observed[1].out)

\* C15: of the readers that racing callers build for one field, a single one
\* holds the cache slot and only that one is handed out by cache hits: the
\* handle a cache hit has returned to a caller is the handle the slot of its
\* field holds, then and ever after, so no reader that has lost the slot or
\* is going to lose it has been handed out by a hit.
C15_OnlyTheWinnerIsHandedOut ==
    \A t \in Threads :
        (pc[t] = "done" /\ frame[t].hit) =>
            [field |-> frame[t].field, handle |-> result[t][1].val] \in TheCache

\* The threads that hold the lock of cache c, shared or exclusive.
LockHolders(c) == lock[c].readers \cup lock[c].writer

\* C16: a thread holds the shared lock only at the map lookup and the
\* exclusive lock only at the map insertion; a thread that is about to look
\* up sub-ranges and construct a reader, or that has constructed one and has
\* not yet obtained the exclusive lock, holds neither; the exclusive lock has
\* at most one holder and excludes every shared holder.
C16_NoLockDuringConstruction ==
    \A c \in 1..Len(lock) :
        /\ \A t \in lock[c].readers : pc[t] = "get" /\ CacheOf(t) = c
        /\ \A t \in lock[c].writer : pc[t] = "insert" /\ CacheOf(t) = c
        /\ \A t \in Threads :
              pc[t] \in {"idle", "read", "miss", "write", "done"} => t \notin LockHolders(c)
        /\ Cardinality(lock[c].writer) <= 1
        /\ lock[c].writer # {} => lock[c].readers = {}

\* One thread is constructing a reader for a field while another thread holds
\* the exclusive lock to insert the reader it constructed for the same field.
C16_Witness ==
    \E t, u \in Threads :
        /\ pc[t] = "miss" /\ pc[u] = "insert"
        /\ frame[t].field = frame[u].field
        /\ lock[CacheOf(u)].writer = {u}
        /\ t \notin LockHolders(CacheOf(t))

\* What open built from the segment, the cache aside.
ComponentsOf(seg) ==
    [segment_meta |-> seg.meta,
     segment_id |-> seg.id,
     termdict_composite |-> open_termdict(seg).val,
     postings_composite |-> open_postings(seg).val,
     positions_composite |-> open_positions(seg).val,
     store_reader |-> open_store(seg).val,
     fast_fields_reader |-> open_fast_fields(seg).val,
     fieldnorms_reader |-> open_fieldnorms(seg).val,
     delete_bitset |-> open_delete_bitset(seg).val,
     schema |-> seg.schema]

\* C17: after open, no step of field_reader and no accessor call changes the
\* segment or any reader: the metadata, the three Composite Files, the store,
\* fast-field and field-norm readers, the Delete Bit Set and the schema of
\* the opened reader and of every clone stay what open built, also when a
\* field_reader call fails; an accessor call changes no cache, lock or
\* thread, and a cache changes only by the insertion of a successful
\* field_reader call.
C17_OnlyTheCacheChanges ==
    [][/\ segment' = segment
       /\ open_result # <<>> => open_result' = open_result
       /\ \A h \in Holders : readers[h] # <<>> => readers'[h] = readers[h]
       /\ \A h \in Holders : readers'[h] # <<>> => readers'[h] = <<open_result'[1].val>>
       /\ (open_result = <<>> /\ Opened') =>
             LET built_by_open == ComponentsOf(segment)
             IN  \A k \in DOMAIN built_by_open : open_result'[1].val[k] = built_by_open[k]
       /\ observed' # observed =>
             /\ cache' = cache /\ lock' = lock
             /\ pc' = pc /\ frame' = frame /\ result' = result
       /\ \A t \in Threads :
             (pc'[t] = "done" /\ pc[t] # "done" /\ ~result'[t][1].ok) => cache' = cache
       /\ (cache' # cache /\ Opened) =>
             \E t \in Threads :
                 /\ pc[t] = "insert" /\ pc'[t] = "done" /\ result'[t][1].ok
                 /\ \A i \in DOMAIN cache : \A e \in cache'[i] :
                       e \in cache[i] \/ e.field = frame[t].field]_vars

\* With a reader cached for one field, a call for another field has failed
\* and an accessor has been called since; the readers are what open built.
C17_Witness ==
    /\ Opened
    /\ TheCache # {}
    /\ pc[1] = "done" /\ ~result[1][1].ok
    /\ observed # <<>> /\ observed[1].op = "get_fieldnorms_reader"
    /\ readers[1] = <<TheReader>>
    /\ TheReader.segment_meta = segment.meta

\* C18: a thread that waits for the exclusive lock holds no shared lock, and
\* under fair scheduling every call of field_reader that has started returns
\* a reader or an error: the calls being finitely many, from some point on
\* no call is in progress and every thread that called holds a Result.
C18_EveryCallReturns ==
    /\ [](\A t \in Threads :
             pc[t] = "write" => \A c \in 1..Len(lock) : t \notin LockHolders(c))
    /\ <>[](\A t \in Threads : ~Running(t) /\ (pc[t] = "done" => result[t] # <<>>))

\* A thread that has built a reader waits for the exclusive lock while
\* another thread holds the shared lock for its lookup of the same field.
C18_Witness ==
    \E t, u \in Threads :
        /\ pc[t] = "write" /\ pc[u] = "get"
        /\ frame[t].field = frame[u].field
        /\ u \in lock[CacheOf(t)].readers
        /\ ~RwLock_can_write(lock[CacheOf(t)])

\* C19: every key f of the cache has a sub-range in the term-dictionary, the
\* postings and the positions Composite Files of the reader, and the value
\* cached under f is the reader made of f's own three sub-ranges, the
\* reader's Delete Bit Set and its schema.
C19_CachedReadersAreOwn ==
    Opened =>
        \A e \in TheCache :
            /\ ~Unindexed(TheReader, e.field)
            /\ HasSubranges(e.field)
            /\ e.handle.value = ReaderValueOf(e.field)
            /\ e.handle.value.termdict.field = e.field
            /\ e.handle.value.postings.field = e.field
            /\ e.handle.value.positions.field = e.field
            /\ e.handle.value.delete_bitset = TheReader.delete_bitset
            /\ e.handle.value.schema = TheReader.schema

\* Two fields are cached, the last of them built by the second thread, and a
\* call for a field has returned.
C19_Witness ==
    /\ Opened
    /\ Cardinality(HashMap_keys(TheCache)) >= 2
    /\ \E e \in TheCache : e.field = NumFields /\ e.handle.arc[1] = 2
    /\ \E t \in Threads : pc[t] = "done" /\ result[t][1].ok

\* C20: a reader opened from a segment that has no Positions file holds the
\* empty positions Composite File; every field_reader call on it or on a
\* clone of it, also for a field indexed in the term dictionary and the
\* postings, returns "field not found" from the positions lookup without
\* constructing a reader, and the cache is empty in every state.
C20_NoPositionsNoReaders ==
    (Opened /\ segment.files["POSITIONS"] = "absent") =>
        /\ TheReader.positions_composite = CompositeFile_empty
        /\ \A f \in Fields : CompositeFile_open_read(TheReader.positions_composite, f) = {}
        /\ \A i \in 1..Len(cache) : cache[i] = {}
        /\ returned = {}
        /\ \A t \in Threads :
              pc[t] = "done" =>
                  /\ ~result[t][1].ok /\ result[t][1].err \in FieldNotFound
                  /\ ~frame[t].hit /\ ~frame[t].constructed /\ ~frame[t].inserted
                  /\ (frame[t].field \in TheReader.termdict_composite.dir
                                           \cap TheReader.postings_composite.dir) =>
                         result[t][1].err = "field not found"

\* On a reader without positions every call the bound allows has been made,
\* the last one for a field indexed in the term dictionary and the postings,
\* and the cache is still empty.
C20_Witness ==
    /\ Opened
    /\ segment.files["POSITIONS"] = "absent"
    /\ ncalls = MaxCalls
    /\ pc[1] = "done" /\ ~result[1][1].ok
    /\ frame[1].field \in segment.dirs["TERMS"] \cap segment.dirs["POSTINGS"]
    /\ TheCache = {}

====
